---- MODULE Spec2Model ----
(***************************************************************************)
(* podcast-encoder: the WAV chunk scan of WaveFile.read_chapters and the   *)
(* parallel encode orchestration of encode_podcast.encode / main.          *)
(*                                                                         *)
(* A file is a sequence of bytes (0..255).  File offsets are 0-based, as   *)
(* fid.tell() reports them; sequence indices are 1-based.                  *)
(***************************************************************************)
EXTENDS Integers, Sequences, FiniteSets, TLC

VARIABLES
    file,             \* the bytes of the input WAV file on disk
    desc,             \* ghost: the layout the file was built from
    wav_file,         \* WaveFile.wav_file: the state of wave.Wave_read
    pc,               \* position of the calling thread (main / test caller)
    fid,              \* read_chapters: fid.tell() of the handle it opened
    fsize,            \* read_chapters: declared container size + 8
    markersdict,      \* read_chapters: cue id -> timestamp/label, insertion order
    faults,           \* ghost: framing faults the scan has met in this call
    outcome,          \* result of the last finished read_chapters call
    calls,            \* outcomes of the read_chapters calls finished so far
    env,              \* command line, file system and host seen by main
    round_up_num,     \* __round_up: the number being counted up
    samples_per_chunk,\* encode: samples handed to each worker
    idx,              \* encode: index of the running for loop
    chunks,           \* encode: the chunk passed to each Thread, by index
    output_chunks,    \* encode: the BytesIO slot of each worker, by index
    threads,          \* encode: the state of each Thread, by index
    finished,         \* ghost: worker indices in the order they finished
    produced,         \* ghost: the bytes each worker's encode step returned
    failed,           \* ghost: workers whose external encode step failed
    output_bytes,     \* encode: the concatenation being built
    out_file,         \* the output file on disk
    error             \* the exception or exit message that ended main

chapterVars == <<fid, fsize, markersdict, faults, outcome, calls>>
encodeVars == <<samples_per_chunk, idx, chunks, output_chunks, threads, finished,
                produced, failed, output_bytes>>
mainVars == <<env, round_up_num,
              samples_per_chunk, idx, chunks, output_chunks, threads, finished,
              produced, failed, output_bytes, out_file, error>>

-----------------------------------------------------------------------------
(* Bounds of the model                                                     *)

MaxCues == 2
MaxSamples == 4
MaxWorkers == 3

-----------------------------------------------------------------------------
(* Bytes, struct.pack / struct.unpack                                      *)

Min(a, b) == IF a < b THEN a ELSE b

RIFF == <<82, 73, 70, 70>>
WAVE == <<87, 65, 86, 69>>
FMT_ == <<102, 109, 116, 32>>
DATA == <<100, 97, 116, 97>>
CUE_ == <<99, 117, 101, 32>>
LIST == <<76, 73, 83, 84>>
LABL == <<108, 97, 98, 108>>
ADTL == <<97, 100, 116, 108>>
JUNK == <<106, 117, 110, 107>>

\* struct.pack('<i', n) for -2^24 <= n < 2^24
Pack32(n) ==
    LET m == n % 16777216
    IN  <<m % 256, (m \div 256) % 256, (m \div 65536) % 256,
          IF n < 0 THEN 255 ELSE 0>>

\* struct.pack('<h', n) for 0 <= n < 2^15
Pack16(n) == <<n % 256, n \div 256>>

\* struct.unpack('<i', b)[0], for Len(b) = 4
Unpack_i(b) ==
    (b[1] + 256 * b[2] + 65536 * b[3])
        + 16777216 * (IF b[4] >= 128 THEN b[4] - 256 ELSE b[4])

\* struct.unpack('<I', b)[0], for Len(b) = 4 (values below 2^31)
Unpack_I(b) == b[1] + 256 * b[2] + 65536 * b[3] + 16777216 * b[4]

Zeros(n) == [k \in 1..n |-> 0]

-----------------------------------------------------------------------------
(* io.BufferedReader over the file                                         *)

\* fid.read(n), n >= 0, at offset p: the bytes read (short at end of file)
Read(f, p, n) == SubSeq(f, p + 1, Min(p + n, Len(f)))

\* fid.read(n) for any n: a negative length other than -1 is a ValueError,
\* so callers test n < 0 before using Read.

-----------------------------------------------------------------------------
(* WaveFile.__samples_to_millis: int((samples / rate) * 1000).  int()      *)
(* truncates toward zero.  The double arithmetic equals the exact quotient *)
(* for the sample counts and rates of this model (samples < 40, rate <= 60)*)

samples_to_millis(samples, rate) ==
    IF samples >= 0 THEN (samples * 1000) \div rate
    ELSE -(((-samples) * 1000) \div rate)

\* str(n) and int(s) on the "timestamp" field: "" is <<>>, str(n) is <<n>>
ToStr(n) == <<n>>
IsIntLiteral(s) == Len(s) = 1
ToInt(s) == s[1]

-----------------------------------------------------------------------------
(* markersdict: collections.defaultdict, kept in insertion order           *)

DefaultEntry(k) == [id |-> k, timestamp |-> <<>>, label |-> <<>>]
HasKey(md, k) == \E j \in 1..Len(md) : md[j].id = k
\* markersdict[k]: the access inserts the default entry when k is missing
Touch(md, k) == IF HasKey(md, k) THEN md ELSE Append(md, DefaultEntry(k))
\* a timestamp that is set once: the first entry of a cue id wins
SetTimestampOnce(md, k, ts) ==
    LET m == Touch(md, k)
    IN  [j \in 1..Len(m) |->
            IF m[j].id = k /\ m[j].timestamp = <<>>
            THEN [m[j] EXCEPT !.timestamp = ts] ELSE m[j]]

SetTimestamp(md, k, ts) ==
    LET m == Touch(md, k)
    IN  [j \in 1..Len(m) |->
            IF m[j].id = k THEN [m[j] EXCEPT !.timestamp = ts] ELSE m[j]]
SetLabel(md, k, lb) ==
    LET m == Touch(md, k)
    IN  [j \in 1..Len(m) |->
            IF m[j].id = k THEN [m[j] EXCEPT !.label = lb] ELSE m[j]]

-----------------------------------------------------------------------------
(* One iteration of the chunk scan.  p is the offset after the 4-byte      *)
(* chunk id.  The result is the new offset and dictionary, or the error    *)
(* that ends read_chapters.                                                *)

Ok(p, md) == [st |-> "ok", pos |-> p, md |-> md]
Raise(e) == [st |-> e, pos |-> 0, md |-> <<>>]

RECURSIVE CueRecords(_, _, _, _, _)
CueRecords(f, p, n, md, rate) ==
    IF n <= 0 THEN Ok(p, md)
    ELSE LET str1 == Read(f, p, 24)
         IN  IF Len(str1) # 24 THEN Raise("struct.error")
             ELSE LET cue_id == Unpack_i(SubSeq(str1, 1, 4))
                      position == Unpack_i(SubSeq(str1, 5, 8))
                  IN  CueRecords(f, p + 24, n - 1,
                          SetTimestamp(md, cue_id,
                              ToStr(samples_to_millis(position, rate))),
                          rate)

CueChunk(f, p, md, rate) ==
    LET str1 == Read(f, p, 8)
    IN  IF Len(str1) # 8 THEN Raise("struct.error")
        ELSE CueRecords(f, p + 8, Unpack_i(SubSeq(str1, 5, 8)), md, rate)

\* a LIST chunk skipped whole, by its declared size, as an unknown chunk is
ListChunkSkipsBody(f, p, md) ==
    LET data == Read(f, p, 4)
    IN  IF Len(data) # 4 THEN Raise("struct.error")
        ELSE Ok(p + 4 + Unpack_i(data) + (Unpack_i(data) % 2), md)

ListChunk(f, p, md) == Ok(p + Len(Read(f, p, 8)), md)

\* bytes.rstrip(b"\x00")
RECURSIVE RStripNul(_)
RStripNul(b) ==
    IF Len(b) > 0 /\ b[Len(b)] = 0 THEN RStripNul(SubSeq(b, 1, Len(b) - 1))
    ELSE b

\* bytes.decode("utf-8") succeeds on ASCII; the only bytes above 127 that the
\* files of this model hold are 0xF8..0xFF, which no UTF-8 sequence contains
Utf8Decodable(b) == \A j \in 1..Len(b) : b[j] < 128

\* the declared size taken as it is, without the pad byte
UnpaddedSize(size) == size

PaddedSize(size) == size + (size % 2)

LablChunk(f, p, md) ==
    LET str1 == Read(f, p, 8)
    IN  IF Len(str1) # 8 THEN Raise("struct.error")
        ELSE LET size == PaddedSize(Unpack_i(SubSeq(str1, 1, 4)))
                 cue_id == Unpack_i(SubSeq(str1, 5, 8))
             IN  IF size - 4 < 0 THEN Raise("ValueError")
                 ELSE LET raw == Read(f, p + 8, size - 4)
                          label == RStripNul(raw)
                      IN  IF ~Utf8Decodable(label)
                          THEN Raise("UnicodeDecodeError")
                          ELSE Ok(p + 8 + Len(raw),
                                  SetLabel(md, cue_id, label))

\* the seek by the declared size, odd or even
SkipSizeAsDeclared(size) == size

\* the size __skip_unknown_chunk seeks by: odd sizes are rounded up
SkipSize(size) == IF size % 2 = 1 THEN size + 1 ELSE size

skip_unknown_chunk(f, p, md) ==
    LET data == Read(f, p, 4)
    IN  IF Len(data) # 4 THEN Raise("struct.error")
        ELSE LET target == p + Len(data) + SkipSize(Unpack_i(data))
             IN  IF target < 0 THEN Raise("OSError") ELSE Ok(target, md)

\* __read_riff_chunk on a handle at offset p: the container size, or an error
read_riff_chunk(f, p) ==
    IF Read(f, p, 4) # RIFF THEN Raise("ValueError")
    ELSE IF Len(Read(f, p + 4, 4)) # 4 THEN Raise("struct.error")
    ELSE IF Read(f, p + 8, 4) # WAVE THEN Raise("ValueError")
    ELSE [st |-> "ok", pos |-> p + 12, md |-> <<>>,
          fsize |-> Unpack_I(Read(f, p + 4, 4)) + 8]

-----------------------------------------------------------------------------
(* After the scan: sorted(...) by int(timestamp), then the chapter tuples  *)

\* the list left in dictionary order
InsertUnsorted(s, x) == Append(s, x)

\* x goes after every element whose key is <= its own: the sort is stable
RECURSIVE InsertByTimestamp(_, _)
InsertByTimestamp(s, x) ==
    IF s = <<>> THEN <<x>>
    ELSE IF ToInt(s[Len(s)].timestamp) <= ToInt(x.timestamp) THEN Append(s, x)
    ELSE Append(InsertByTimestamp(SubSeq(s, 1, Len(s) - 1), x), s[Len(s)])

RECURSIVE SortedMarkers(_)
SortedMarkers(md) ==
    IF md = <<>> THEN <<>>
    ELSE InsertByTimestamp(SortedMarkers(SubSeq(md, 1, Len(md) - 1)),
                           md[Len(md)])

\* every chapter given the end of the track as its end
BuildChaptersEndAtTotal(sorted_markers, total) ==
    [i \in 1..Len(sorted_markers) |->
        <<ToInt(sorted_markers[i].timestamp), total, sorted_markers[i].label>>]

\* the loop of lines 43-51 over sorted_markers
BuildChapters(sorted_markers, total) ==
    [i \in 1..Len(sorted_markers) |->
        <<ToInt(sorted_markers[i].timestamp),
          IF i + 1 <= Len(sorted_markers)
          THEN ToInt(sorted_markers[i + 1].timestamp)
          ELSE total,
          sorted_markers[i].label>>]

\* a default entry whose timestamp is "0": an entry that only a labl made
\* sorts and converts as a cue point at 0 ms
FinishChaptersUnsetIsZero(md, nframes, rate) ==
    LET m == [j \in 1..Len(md) |->
                 IF IsIntLiteral(md[j].timestamp) THEN md[j]
                 ELSE [md[j] EXCEPT !.timestamp = ToStr(0)]]
    IN  [st |-> "ok",
         ret |-> BuildChapters(SortedMarkers(m),
                               samples_to_millis(nframes, rate))]

\* the last chapter looked up before the loop: sorted_markers[-1] of no markers
FinishChaptersLastFirst(md, nframes, rate) ==
    IF md = <<>> THEN [st |-> "IndexError", ret |-> <<>>]
    ELSE IF \E j \in 1..Len(md) : ~IsIntLiteral(md[j].timestamp)
    THEN [st |-> "ValueError", ret |-> <<>>]
    ELSE [st |-> "ok",
          ret |-> BuildChapters(SortedMarkers(md),
                                samples_to_millis(nframes, rate))]

\* lines 39-53: int("") of an entry that never got a timestamp is a ValueError
FinishChapters(md, nframes, rate) ==
    IF \E j \in 1..Len(md) : ~IsIntLiteral(md[j].timestamp)
    THEN [st |-> "ValueError", ret |-> <<>>]
    ELSE [st |-> "ok",
          ret |-> BuildChapters(SortedMarkers(md),
                                samples_to_millis(nframes, rate))]

-----------------------------------------------------------------------------
(* The input files.  A layout names the chunks that follow the fmt and     *)
(* data chunks; FileBytes is the file a WAV writer makes of it.  Layouts   *)
(* of a kind other than "valid" carry one framing fault.                   *)

RECURSIVE Flatten(_)
Flatten(ss) == IF ss = <<>> THEN <<>> ELSE Head(ss) \o Flatten(Tail(ss))

Item(t, n, size, recs, id, text) ==
    [t |-> t, n |-> n, size |-> size, recs |-> recs, id |-> id, text |-> text]

\* a cue chunk of the records recs = << <<cueId, samplePosition>>, ... >>
CueItem(recs) == Item("cue", Len(recs), 4 + 24 * Len(recs), recs, 0, <<>>)
\* the 12 bytes that open a LIST/adtl chunk of size bytes
ListItem(size) == Item("list", 0, size, <<>>, 0, <<>>)
\* a labl sub-chunk: text is the label with its terminating NUL
LablItem(id, text) == Item("labl", 0, 4 + Len(text), <<>>, id, text)
\* any other chunk: declares size bytes and holds n (plus the pad byte)
UnkItem(size, n) == Item("unk", n, size, <<>>, 0, <<>>)

CueRecordBytes(rec) ==
    Pack32(rec[1]) \o Pack32(rec[2]) \o DATA
        \o Pack32(0) \o Pack32(0) \o Pack32(rec[2])

ItemBytes(it) ==
    CASE it.t = "cue" ->
            CUE_ \o Pack32(it.size) \o Pack32(it.n)
                \o Flatten([j \in 1..Len(it.recs) |-> CueRecordBytes(it.recs[j])])
      [] it.t = "list" -> LIST \o Pack32(it.size) \o ADTL
      [] it.t = "labl" ->
            LABL \o Pack32(it.size) \o Pack32(it.id) \o it.text
                \o Zeros(Len(it.text) % 2)
      [] OTHER -> JUNK \o Pack32(it.size) \o Zeros(it.n + (it.n % 2))

\* 8-bit mono PCM: fmt chunk of 16 bytes
FmtBytes(rate) ==
    FMT_ \o Pack32(16) \o Pack16(1) \o Pack16(1) \o Pack32(rate)
        \o Pack32(rate) \o Pack16(1) \o Pack16(8)

\* sample k of the stream is the byte k
DataBytes(n) == DATA \o Pack32(n) \o [k \in 1..n |-> k] \o Zeros(n % 2)

BodyBytes(d) ==
    WAVE \o FmtBytes(d.rate) \o DataBytes(d.nsamples)
        \o Flatten([j \in 1..Len(d.items) |-> ItemBytes(d.items[j])])

FullBytes(d) == RIFF \o Pack32(Len(BodyBytes(d))) \o BodyBytes(d)

\* d.cut < 0: the whole file; otherwise the file ends after d.cut bytes
FileBytes(d) ==
    IF d.cut < 0 THEN FullBytes(d) ELSE SubSeq(FullBytes(d), 1, d.cut)

Layout(kind, rate, nsamples, items, cut) ==
    [kind |-> kind, rate |-> rate, nsamples |-> nsamples, items |-> items,
     cut |-> cut]

Rates == {2, 3}
SampleCounts == (MaxSamples - 1)..MaxSamples
CueIds == {1, 2}

\* the label text written for a cue id, with its NUL: "A", "BC"
LabelText(id) == IF id = 1 THEN <<65, 0>> ELSE <<66, 67, 0>>

\* a labl sub-chunk for cue id 9, which no cue point has
OrphanLabel == LablItem(9, LabelText(1))

CueLists(nsamples) ==
    UNION {[1..k -> CueIds \X (0..nsamples)] : k \in 0..MaxCues}

RECURSIVE DistinctIds(_)
\* the cue ids of recs in order of first appearance
DistinctIds(recs) ==
    IF recs = <<>> THEN <<>>
    ELSE LET before == DistinctIds(SubSeq(recs, 1, Len(recs) - 1))
             id == recs[Len(recs)][1]
         IN  IF \E j \in 1..Len(before) : before[j] = id THEN before
             ELSE Append(before, id)

\* a LIST/adtl chunk holding one labl per id of ids
LabelItems(ids) ==
    IF ids = <<>> THEN <<>>
    ELSE LET labls == [j \in 1..Len(ids) |-> LablItem(ids[j], LabelText(ids[j]))]
         IN  <<ListItem(4 + Len(Flatten([j \in 1..Len(labls) |->
                                            ItemBytes(labls[j])])))>>
                 \o labls

\* one labl chunk per id of ids, at the top level of the container
BareLabelItems(ids) ==
    [j \in 1..Len(ids) |-> LablItem(ids[j], LabelText(ids[j]))]

Labellings == {"none", "all", "first"}

LabelledIds(recs, how) ==
    CASE how = "all" -> DistinctIds(recs)
      [] how = "first" ->
            SubSeq(DistinctIds(recs), 1, Min(1, Len(DistinctIds(recs))))
      [] OTHER -> <<>>

ValidLayoutsOf(n) ==
    {Layout("valid", r, n,
            <<CueItem(recs)>> \o LabelItems(LabelledIds(recs, how)), -1) :
        r \in Rates, recs \in CueLists(n), how \in Labellings}
    \cup
    {Layout("valid", r, n,
            <<CueItem(recs)>> \o BareLabelItems(DistinctIds(recs)), -1) :
        r \in Rates, recs \in CueLists(n)}

\* layouts with two valid layouts' cue points
BaseRecs == {<<<<1, 0>>, <<2, 2>>>>, <<<<2, 1>>>>}

\* a chunk that read_chapters does not know, of an empty, odd or even
\* declared size, between the cue chunk and the labels
WithUnknownChunk ==
    {Layout("valid", 2, n,
            <<CueItem(recs), UnkItem(size, size)>>
                \o LabelItems(DistinctIds(recs)), -1) :
        n \in SampleCounts, recs \in BaseRecs, size \in {0, 3, 6}}

\* a cue point one sample after the last sample of the stream
BeyondEndLayouts ==
    {Layout("valid", 2, n, <<CueItem(<<<<1, 0>>, <<2, n + 1>>>>)>>, -1) :
        n \in SampleCounts}

\* with a cue chunk (of zero or more records), or with no cue chunk at all
ValidLayouts ==
    UNION {ValidLayoutsOf(n) : n \in SampleCounts}
        \cup {Layout("valid", r, n, <<>>, -1) : r \in Rates, n \in SampleCounts}
        \cup WithUnknownChunk \cup BeyondEndLayouts

\* layouts with one framing fault each, built on two valid layouts

TruncatedLayouts ==
    UNION {LET d == Layout("truncated", 2, n,
                        <<CueItem(recs)>> \o LabelItems(DistinctIds(recs)), -1)
           IN  {[d EXCEPT !.cut = c] : c \in 44..(Len(FullBytes(d)) - 1)} :
           n \in SampleCounts, recs \in BaseRecs}

\* a chunk after the cue chunk declares more bytes than the container holds
OversizeLayouts ==
    {Layout("oversize", 2, n,
            <<CueItem(recs), UnkItem(size, 2), CueItem(<<<<1, n>>>>)>>, -1) :
        n \in SampleCounts, recs \in BaseRecs, size \in {40, 100}}

\* a chunk after the cue chunk declares a negative size
NegativeSizeLayouts ==
    {Layout("negsize", 2, n, <<CueItem(recs), UnkItem(size, 2)>>, -1) :
        n \in SampleCounts, recs \in BaseRecs, size \in {-1, -7, -8, -12, -1000}}

\* the cue chunk declares a count that is not the number of its records
CueCountLayouts ==
    {Layout("cuecount", 2, n,
            <<[CueItem(recs) EXCEPT !.n = Len(recs) + dn]>>, -1) :
        n \in SampleCounts, recs \in BaseRecs, dn \in {-3, -1, 1}}

\* a labl sub-chunk declares fewer bytes than its cue id takes, or more
\* than the container holds
LablSizeLayouts ==
    {Layout("lablsize", 2, n,
            <<CueItem(recs), ListItem(16),
              [LablItem(recs[1][1], LabelText(1)) EXCEPT !.size = size]>>, -1) :
        n \in SampleCounts, recs \in BaseRecs, size \in {-2, 0, 1, 2, 3, 40}}

\* a labl sub-chunk names a cue id that no cue point has
OrphanLayouts ==
    {Layout("orphan", r, n,
            <<CueItem(recs), ListItem(16), OrphanLabel>>, -1) :
        r \in Rates, n \in SampleCounts, recs \in BaseRecs \cup {<<>>}}

FaultyLayouts ==
    TruncatedLayouts \cup OversizeLayouts \cup NegativeSizeLayouts
        \cup CueCountLayouts \cup LablSizeLayouts \cup OrphanLayouts

Layouts == ValidLayouts \cup FaultyLayouts

-----------------------------------------------------------------------------
(* WaveFile.__init__: wave.open reads the fmt chunk and the header of the  *)
(* data chunk, which every layout holds whole at offsets 12 and 36.        *)

wave_open(f) ==
    LET nchannels == Read(f, 22, 2)[1] + 256 * Read(f, 22, 2)[2]
        sampwidth == ((Read(f, 34, 2)[1] + 256 * Read(f, 34, 2)[2]) + 7) \div 8
    IN  [st |-> "open",
         framerate |-> Unpack_I(Read(f, 24, 4)),
         sampwidth |-> sampwidth,
         nframes |-> Unpack_I(Read(f, 40, 4)) \div (nchannels * sampwidth),
         soundpos |-> 0]

get_sample_rate == wav_file.framerate
get_num_samples == wav_file.nframes
get_bit_depth == wav_file.sampwidth * 8

-----------------------------------------------------------------------------
(* read_chapters as a sequence of steps: open and __read_riff_chunk, one   *)
(* step per iteration of the while loop, then the sort and the result.     *)

MaxCalls == 2

chunk_id == Read(file, fid, 4)

\* ghost: what is wrong with the header of the chunk at offset p, if anything
HeaderFaults(f, p, fsz) ==
    LET id == Read(f, p, 4)
        q == p + Len(id)
        need == IF id \in {CUE_, LIST, LABL} THEN 8 ELSE 4
        hdr == Read(f, q, need)
        v == IF id \in {CUE_, LABL} THEN Unpack_i(SubSeq(hdr, 5, 8))
             ELSE Unpack_i(SubSeq(hdr, 1, 4))
        sz == Unpack_i(SubSeq(hdr, 1, 4))
    IN  IF Len(id) < 4 \/ Len(hdr) < need THEN {"truncated"}
        ELSE IF id = LIST THEN {}
        ELSE IF id = CUE_
             THEN IF v < 0 \/ q + 8 + 24 * v > fsz THEN {"malformed"} ELSE {}
        ELSE IF id = LABL
             THEN IF PaddedSize(sz) < 4 \/ q + 4 + PaddedSize(sz) > fsz
                  THEN {"malformed"} ELSE {}
        ELSE IF v < 0 \/ q + 4 + SkipSize(v) > fsz THEN {"malformed"} ELSE {}

NoOutcome == [st |-> "none", ret |-> <<>>]

\* the step's result r ends the iteration, or ends the call with the error
EndStep(r) ==
    /\ faults' = faults \cup HeaderFaults(file, fid, fsize)
    /\ IF r.st = "ok"
       THEN /\ fid' = r.pos
            /\ markersdict' = r.md
            /\ UNCHANGED <<pc, fsize, outcome, calls>>
       ELSE /\ pc' = "rc_raised"
            /\ outcome' = [st |-> r.st, ret |-> <<>>]
            /\ calls' = Append(calls, outcome')
            /\ fid' = fid
            /\ fsize' = 0
            /\ markersdict' = <<>>
    /\ UNCHANGED <<file, desc, wav_file, mainVars>>

\* one handle kept on the object: a call finds it where the last call left it
ReusedHandle(last) == last

\* open(self.path, "rb") makes a new handle, at offset 0, whatever offset the
\* handle of an earlier call was closed at
OpenedHandle(last) == 0

\* lines 13-16: open(self.path), __read_riff_chunk, the empty defaultdict
OpenForChapters ==
    /\ pc = "rc_call"
    /\ LET r == read_riff_chunk(file, OpenedHandle(fid))
       IN  IF r.st = "ok"
           THEN /\ pc' = "rc_scan"
                /\ fid' = r.pos
                /\ fsize' = r.fsize
                /\ markersdict' = <<>>
                /\ UNCHANGED <<outcome, calls>>
           ELSE /\ pc' = "rc_raised"
                /\ outcome' = [st |-> r.st, ret |-> <<>>]
                /\ calls' = Append(calls, outcome')
                /\ UNCHANGED <<fid, fsize, markersdict>>
    /\ faults' = {}
    /\ UNCHANGED <<file, desc, wav_file, mainVars>>

Scanning == pc = "rc_scan" /\ fid < fsize

ScanCue ==
    /\ Scanning
    /\ chunk_id = CUE_
    /\ EndStep(CueChunk(file, fid + 4, markersdict, get_sample_rate))

ScanList ==
    /\ Scanning
    /\ chunk_id = LIST
    /\ EndStep(ListChunk(file, fid + 4, markersdict))

ScanLabl ==
    /\ Scanning
    /\ chunk_id = LABL
    /\ EndStep(LablChunk(file, fid + 4, markersdict))

ScanUnknown ==
    /\ Scanning
    /\ chunk_id \notin {CUE_, LIST, LABL}
    /\ EndStep(skip_unknown_chunk(file, fid + Len(chunk_id), markersdict))

\* lines 39-53, once the while loop has ended
FinishReadChapters ==
    /\ pc = "rc_scan"
    /\ ~(fid < fsize)
    /\ LET r == FinishChapters(markersdict, get_num_samples, get_sample_rate)
       IN  /\ pc' = IF r.st = "ok" THEN "rc_returned" ELSE "rc_raised"
           /\ outcome' = r
           /\ calls' = Append(calls, r)
    /\ fid' = fid
    /\ fsize' = 0
    /\ markersdict' = <<>>
    /\ UNCHANGED <<file, desc, wav_file, faults, mainVars>>

read_chapters ==
    \/ OpenForChapters
    \/ ScanCue
    \/ ScanList
    \/ ScanLabl
    \/ ScanUnknown
    \/ FinishReadChapters

-----------------------------------------------------------------------------
(* A caller that opens a WaveFile and reads its chapters MaxCalls times    *)

vars == <<file, desc, wav_file, pc, fid, fsize, markersdict, faults,
          outcome, calls, env, round_up_num,
          samples_per_chunk, idx, chunks, output_chunks,
          threads, finished, produced, failed, output_bytes, out_file, error>>

NoFile == [written |-> FALSE, chapters |-> <<>>, audio |-> <<>>]

\* a host on which __configure_args passes
GoodEnv(cpus, chapters) ==
    [version |-> FALSE, help |-> FALSE, input |-> TRUE, lame |-> TRUE,
     exists |-> TRUE, isdir |-> FALSE, out_exists |-> FALSE,
     include_chapters |-> chapters, cpu_count |-> cpus]

EncodeIdle ==
    /\ round_up_num = 0
    /\ samples_per_chunk = 0
    /\ idx = 0
    /\ chunks = <<>>
    /\ output_chunks = <<>>
    /\ threads = <<>>
    /\ finished = <<>>
    /\ produced = <<>>
    /\ failed = {}
    /\ output_bytes = <<>>
    /\ out_file = NoFile
    /\ error = "none"

InitChapters ==
    /\ desc \in Layouts
    /\ file = FileBytes(desc)
    /\ wav_file = wave_open(file)
    /\ pc = "idle"
    /\ fid = 0
    /\ fsize = 0
    /\ markersdict = <<>>
    /\ faults = {}
    /\ outcome = NoOutcome
    /\ calls = <<>>
    /\ env = GoodEnv(1, TRUE)
    /\ EncodeIdle

CallReadChapters ==
    /\ pc \in {"idle", "rc_returned", "rc_raised"}
    /\ Len(calls) < MaxCalls
    /\ pc' = "rc_call"
    /\ UNCHANGED <<file, desc, wav_file, fid, fsize, markersdict, faults,
                   outcome, calls, mainVars>>

NextChapters == CallReadChapters \/ read_chapters

SpecChapters == InitChapters /\ [][NextChapters]_vars

-----------------------------------------------------------------------------
(* encode_podcast.py: __configure_args, main and encode                    *)

num_cpu == env.cpu_count

\* __round_up: the while loop that counts num up to a multiple
RECURSIVE round_up(_, _)
round_up(num, target_multiple) ==
    IF num % target_multiple # 0 THEN round_up(num + 1, target_multiple)
    ELSE num

-----------------------------------------------------------------------------
(* __round_up and line 83 step by step, on every sample count and worker   *)
(* count up to the bounds                                                  *)

MaxRoundUpSamples == 12
MaxRoundUpWorkers == 4

\* a loop that ends before it counts
RoundUpDoneAtOnce(n, target_multiple) == TRUE

\* line 152: the while condition is false
RoundUpDone(n, target_multiple) == n % target_multiple = 0

InitRoundUp ==
    /\ desc \in {Layout("valid", 2, S, <<>>, -1) : S \in 0..MaxRoundUpSamples}
    /\ env \in {GoodEnv(N, FALSE) : N \in 1..MaxRoundUpWorkers}
    /\ file = FileBytes(desc)
    /\ wav_file = wave_open(file)
    /\ pc = "ru_call"
    /\ fid = 0
    /\ fsize = 0
    /\ markersdict = <<>>
    /\ faults = {}
    /\ outcome = NoOutcome
    /\ calls = <<>>
    /\ EncodeIdle

\* line 83: the call __round_up(num_samples, num_cpu)
RoundUpCall ==
    /\ pc = "ru_call"
    /\ round_up_num' = get_num_samples
    /\ pc' = "ru_loop"
    /\ UNCHANGED <<file, desc, wav_file, chapterVars, env, encodeVars,
                   out_file, error>>

\* lines 152-153: one iteration
RoundUpLoop ==
    /\ pc = "ru_loop"
    /\ ~RoundUpDone(round_up_num, num_cpu)
    /\ round_up_num' = round_up_num + 1
    /\ UNCHANGED <<file, desc, wav_file, pc, chapterVars, env, encodeVars,
                   out_file, error>>

\* line 155, and the division and int() of line 83
RoundUpReturn ==
    /\ pc = "ru_loop"
    /\ RoundUpDone(round_up_num, num_cpu)
    /\ samples_per_chunk' = round_up_num \div num_cpu
    /\ pc' = "ru_done"
    /\ UNCHANGED <<file, desc, wav_file, chapterVars, env, round_up_num,
                   idx, chunks,
                   output_chunks, threads, finished, produced, failed,
                   output_bytes, out_file, error>>

NextRoundUp == RoundUpCall \/ RoundUpLoop \/ RoundUpReturn

\* the function runs in one thread that keeps running until it returns
SpecRoundUp == InitRoundUp /\ [][NextRoundUp]_vars /\ WF_vars(NextRoundUp)

\* the chunk size rounded down
SamplesPerChunkFloor(num_samples, n) == num_samples \div n

\* line 83: int(__round_up(num_samples, num_cpu) / num_cpu)
SamplesPerChunk(num_samples, n) == round_up(num_samples, n) \div n

\* wave.Wave_read.setpos refuses a position outside 0..nframes
SetPosFails(w, pos) == pos < 0 \/ pos > w.nframes

\* wave.Wave_read.readframes(num) at w.soundpos: the frames left in the data
\* chunk, which starts at offset 44 of the file
read_samples(f, w, num) ==
    Read(f, 44 + w.soundpos * w.sampwidth,
         Min(num, w.nframes - w.soundpos) * w.sampwidth)

\* the external encoder on one chunk: a frame header, then a frame a sample
Lame(chunk) == <<0>> \o [k \in 1..Len(chunk) |-> 100 + chunk[k]]

\* a Thread started in the loop that makes it
StartedThread == "started"

\* a Thread object is created unstarted (lines 92-95)
NewThread == "new"

\* one BytesIO made before the loop and given to every worker
SharedSlot(j) == 1

\* the BytesIO each worker was given: its own (lines 90-95)
SlotOf(j) == j

\* a join that does not wait
JoinReturnsAtOnce(j) == TRUE

\* thread.join() returns once the thread has ended
Joinable(j) == threads[j] = "finished"

ClosedBuffer == <<"closed">>

Exit(code, msg) ==
    /\ pc' = code
    /\ error' = msg
    /\ UNCHANGED <<file, desc, wav_file, chapterVars, env, round_up_num,
                   encodeVars, out_file>>

\* __configure_args without the test of lines 197-198
ConfigureArgsNoOutputTest ==
    /\ pc = "configure"
    /\ IF env.version \/ env.help THEN Exit("exit_ok", "none")
       ELSE IF ~env.input THEN Exit("exit_error", "Missing argument: input")
       ELSE IF ~env.lame THEN Exit("exit_error", "lame not found")
       ELSE IF ~env.exists THEN Exit("exit_error", "Input doesn't exist")
       ELSE IF env.isdir THEN Exit("exit_error", "Input cannot be a directory")
       ELSE Exit("open", "none")

\* lines 158-200
ConfigureArgs ==
    /\ pc = "configure"
    /\ IF env.version \/ env.help THEN Exit("exit_ok", "none")
       ELSE IF ~env.input THEN Exit("exit_error", "Missing argument: input")
       ELSE IF ~env.lame THEN Exit("exit_error", "lame not found")
       ELSE IF ~env.exists THEN Exit("exit_error", "Input doesn't exist")
       ELSE IF env.isdir THEN Exit("exit_error", "Input cannot be a directory")
       ELSE IF env.out_exists THEN Exit("exit_error", "Output file exists")
       ELSE Exit("open", "none")

\* line 50
OpenWaveFile ==
    /\ pc = "open"
    /\ wav_file' = wave_open(file)
    /\ pc' = "chapters"
    /\ UNCHANGED <<file, desc, chapterVars, mainVars>>

\* lines 51-52: read_chapters is called only with --include-chapters
MainChapters ==
    /\ pc = "chapters"
    /\ pc' = IF env.include_chapters THEN "rc_call" ELSE "encode"
    /\ UNCHANGED <<file, desc, wav_file, chapterVars, mainVars>>

\* lines 79-85
EncodeSetup ==
    /\ pc \in {"encode", "rc_returned"}
    /\ samples_per_chunk' = SamplesPerChunk(get_num_samples, num_cpu)
    /\ idx' = 0
    /\ chunks' = <<>>
    /\ output_chunks' = <<>>
    /\ threads' = <<>>
    /\ produced' = [j \in 1..num_cpu |-> <<>>]
    /\ pc' = "enc_read"
    /\ UNCHANGED <<file, desc, wav_file, chapterVars, env, round_up_num,
                   finished, failed,
                   output_bytes, out_file, error>>

\* lines 87-95, one iteration
ReadChunk ==
    /\ pc = "enc_read"
    /\ IF SetPosFails(wav_file, samples_per_chunk * idx)
       THEN /\ pc' = "crashed"
            /\ error' = "wave.Error"
            /\ UNCHANGED <<wav_file, idx, chunks, output_chunks, threads>>
       ELSE LET w == [wav_file EXCEPT !.soundpos = samples_per_chunk * idx]
                chunk == read_samples(file, w, samples_per_chunk)
            IN  /\ wav_file' = [w EXCEPT !.soundpos = @ + Len(chunk) \div w.sampwidth]
                /\ chunks' = Append(chunks, chunk)
                /\ output_chunks' = Append(output_chunks, <<>>)
                /\ threads' = Append(threads, NewThread)
                /\ idx' = IF idx + 1 < num_cpu THEN idx + 1 ELSE 0
                /\ pc' = IF idx + 1 < num_cpu THEN "enc_read" ELSE "enc_start"
                /\ error' = error
    /\ UNCHANGED <<file, desc, chapterVars, env, round_up_num,
                   samples_per_chunk, finished,
                   produced, failed, output_bytes, out_file>>

\* lines 97-98, one iteration
StartThread ==
    /\ pc = "enc_start"
    /\ threads' = [threads EXCEPT ![idx + 1] = "started"]
    /\ idx' = IF idx + 1 < num_cpu THEN idx + 1 ELSE 0
    /\ pc' = IF idx + 1 < num_cpu THEN "enc_start" ELSE "enc_join"
    /\ UNCHANGED <<file, desc, wav_file, chapterVars, env, round_up_num,
                   samples_per_chunk,
                   chunks, output_chunks, finished, produced, failed,
                   output_bytes, out_file, error>>

\* lines 139-148 in worker j: mp3_data is what communicate() returned
WorkerEnds(j, mp3_data) ==
    /\ j \in 1..Len(threads)
    /\ threads[j] = "started"
    /\ output_chunks' = [output_chunks EXCEPT ![SlotOf(j)] = @ \o mp3_data]
    /\ threads' = [threads EXCEPT ![j] = "finished"]
    /\ finished' = Append(finished, j)
    /\ produced' = [produced EXCEPT ![j] = mp3_data]
    /\ UNCHANGED <<file, desc, wav_file, pc, chapterVars, env, round_up_num,
                   samples_per_chunk, idx, chunks, output_bytes, out_file,
                   error>>

EncodeChunkOk(j) ==
    /\ WorkerEnds(j, Lame(chunks[j]))
    /\ failed' = failed

\* the encoder fails: nothing on its stdout, and nobody reads its exit status
EncodeChunkFails(j) ==
    /\ WorkerEnds(j, <<>>)
    /\ failed' = failed \cup {j}

\* lines 100-101, one iteration
JoinThread ==
    /\ pc = "enc_join"
    /\ Joinable(idx + 1)
    /\ idx' = IF idx + 1 < num_cpu THEN idx + 1 ELSE 0
    /\ pc' = IF idx + 1 < num_cpu THEN "enc_join" ELSE "enc_concat"
    /\ UNCHANGED <<file, desc, wav_file, chapterVars, env, round_up_num,
                   samples_per_chunk,
                   chunks, output_chunks, threads, finished, produced, failed,
                   output_bytes, out_file, error>>

\* lines 103-108, one iteration; after the last one encode returns
ConcatChunk ==
    /\ pc = "enc_concat"
    /\ output_bytes' = output_bytes \o output_chunks[idx + 1]
    /\ output_chunks' = [output_chunks EXCEPT ![idx + 1] = ClosedBuffer]
    /\ idx' = IF idx + 1 < num_cpu THEN idx + 1 ELSE 0
    /\ pc' = IF idx + 1 < num_cpu THEN "enc_concat" ELSE "close"
    /\ UNCHANGED <<file, desc, wav_file, chapterVars, env, round_up_num,
                   samples_per_chunk,
                   chunks, threads, finished, produced, failed, out_file,
                   error>>

\* line 56
CloseWaveFile ==
    /\ pc = "close"
    /\ wav_file' = [wav_file EXCEPT !.st = "closed"]
    /\ pc' = "save"
    /\ UNCHANGED <<file, desc, chapterVars, mainVars>>

\* lines 58-75: the tags, then the output file
SaveAndWrite ==
    /\ pc = "save"
    /\ out_file' = [written |-> TRUE,
                    chapters |-> IF env.include_chapters THEN outcome.ret
                                 ELSE <<>>,
                    audio |-> output_bytes]
    /\ pc' = "done"
    /\ UNCHANGED <<file, desc, wav_file, chapterVars, env, round_up_num,
                   encodeVars, error>>

encode ==
    \/ EncodeSetup
    \/ ReadChunk
    \/ StartThread
    \/ \E j \in 1..MaxWorkers : EncodeChunkOk(j)
    \/ \E j \in 1..MaxWorkers : EncodeChunkFails(j)
    \/ JoinThread
    \/ ConcatChunk

\* the files main is run on: no cue chunk, one labelled cue, an orphan label
MainLayouts ==
    {Layout(IF Len(items) = 3 THEN "orphan" ELSE "valid", 2, n, items, -1) :
        n \in 0..MaxSamples,
        items \in {<<>>,
                   <<CueItem(<<<<1, 0>>>>)>> \o LabelItems(<<1>>),
                   <<CueItem(<<>>), ListItem(16), OrphanLabel>>}}

\* hosts on which __configure_args ends the program: every outcome of its
\* tests but the one on which all of them pass
BadEnvs ==
    [version : BOOLEAN, help : BOOLEAN, input : BOOLEAN, lame : BOOLEAN,
     exists : BOOLEAN, isdir : BOOLEAN, out_exists : BOOLEAN,
     include_chapters : {FALSE}, cpu_count : {1}]
        \ {GoodEnv(1, FALSE)}

Unopened ==
    [st |-> "unopened", framerate |-> 0, sampwidth |-> 0, nframes |-> 0,
     soundpos |-> 0]

Init ==
    /\ \/ /\ desc \in MainLayouts
          /\ env \in {GoodEnv(n, c) : n \in 1..MaxWorkers, c \in BOOLEAN}
       \/ /\ desc = Layout("valid", 2, 0, <<>>, -1)
          /\ env \in BadEnvs
    /\ file = FileBytes(desc)
    /\ wav_file = Unopened
    /\ pc = "configure"
    /\ fid = 0
    /\ fsize = 0
    /\ markersdict = <<>>
    /\ faults = {}
    /\ outcome = NoOutcome
    /\ calls = <<>>
    /\ EncodeIdle

Next ==
    \/ ConfigureArgs
    \/ OpenWaveFile
    \/ MainChapters
    \/ read_chapters
    \/ encode
    \/ CloseWaveFile
    \/ SaveAndWrite

Spec == Init /\ [][Next]_vars

-----------------------------------------------------------------------------
(* Properties of read_chapters, under SpecChapters                         *)

\* ghost: the cue records and label ids the layout holds, in file order
LayoutCues(d) ==
    Flatten([j \in 1..Len(d.items) |->
                IF d.items[j].t = "cue" THEN d.items[j].recs ELSE <<>>])
LayoutLabelIds(d) ==
    Flatten([j \in 1..Len(d.items) |->
                IF d.items[j].t = "labl" THEN <<d.items[j].id>> ELSE <<>>])

\* a valid container whose cue points have distinct ids
ValidDistinct(d) ==
    /\ d.kind = "valid"
    /\ Len(DistinctIds(LayoutCues(d))) = Len(LayoutCues(d))

TotalDurationMillis(d) == (d.nsamples * 1000) \div d.rate

CallEnded == pc \in {"rc_returned", "rc_raised"}

\* C1: on a valid container with K cue points of distinct ids (labelled or
\* not), read_chapters returns K chapters in ascending order of startMillis,
\* each ending where the next starts and the last at the total duration.
C1_ChaptersOfValidFile ==
    (CallEnded /\ ValidDistinct(desc)) =>
        LET ch == outcome.ret
            K == Len(LayoutCues(desc))
        IN  /\ outcome.st = "ok"
            /\ Len(ch) = K
            /\ \A i \in 1..(K - 1) :
                   ch[i][1] <= ch[i + 1][1] /\ ch[i][2] = ch[i + 1][1]
            /\ K > 0 => ch[K][2] = TotalDurationMillis(desc)

\* two labelled cue points stored out of order, at samples 2 and 0 of 4 at
\* 2 Hz: the chapters 0-1000 "BC" and 1000-2000 "A"
C1_Witness ==
    /\ pc = "rc_returned"
    /\ ValidDistinct(desc)
    /\ LayoutCues(desc) = <<<<1, 2>>, <<2, 0>>>>
    /\ LayoutLabelIds(desc) = <<1, 2>>
    /\ outcome.ret = <<<<0, 1000, <<66, 67>>>>, <<1000, 2000, <<65>>>>>>

\* C8: a call that met a truncated or malformed chunk header does not return
\* a list.
C8_FaultAbortsRead == pc = "rc_returned" => faults = {}

\* C9: a valid container without cue points gives the empty list, no error.
C9_NoCuesNoChapters ==
    (CallEnded /\ desc.kind = "valid" /\ LayoutCues(desc) = <<>>) =>
        outcome = [st |-> "ok", ret |-> <<>>]

C9_Witness ==
    /\ pc = "rc_returned"
    /\ desc.kind = "valid"
    /\ Len(desc.items) = 1
    /\ LayoutCues(desc) = <<>>
    /\ outcome.ret = <<>>

\* C10: every call of read_chapters on one open WaveFile ends as the first did.
C10_SecondCallSameResult ==
    \A i \in 1..Len(calls) : calls[i] = calls[1]

C10_Witness ==
    /\ Len(calls) = 2
    /\ calls[2].st = "ok"
    /\ Len(calls[2].ret) = 2
    /\ fid > 0

-----------------------------------------------------------------------------
(* Properties of encode and main, under Spec                               *)

\* the samples of the stream, in order
AllSamples == [k \in 1..desc.nsamples |-> k]

ReadsDone == pc \in {"enc_start", "enc_join", "enc_concat", "close", "save", "done"}
EncodeReturned == pc \in {"close", "save", "done"}

\* C2: once the chunk loop has ended, with its N reads made or by the error of
\* a seek, chunk i holds the samples from i*samples_per_chunk on, the chunks
\* share no sample, and one after the other they are the whole stream: S
\* samples, none twice, none missing.
C2_ChunksPartitionStream ==
    /\ ReadsDone => Len(chunks) = num_cpu
    /\ (ReadsDone \/ pc = "crashed") =>
           /\ Flatten(chunks) = AllSamples
           /\ \A i \in 1..Len(chunks) :
                  \A k \in 1..Len(chunks[i]) :
                      chunks[i][k] = (i - 1) * samples_per_chunk + k

\* 4 samples on 3 workers: chunks of 2, 2 and 0 samples
C2_Witness ==
    /\ pc = "enc_start"
    /\ num_cpu = 3
    /\ chunks = <<<<1, 2>>, <<3, 4>>, <<>>>>

\* C3: what encode returns is the output of worker 0, then of worker 1, and so
\* on, in whatever order the workers finished.
C3_ConcatInIndexOrder ==
    EncodeReturned => output_bytes = Flatten(produced)

\* worker 1 finished after the two others
C3_Witness ==
    /\ pc = "close"
    /\ finished = <<3, 2, 1>>
    /\ failed = {}
    /\ output_bytes = <<0, 101, 102, 0, 103, 104, 0>>

\* C4: when the encode step of a worker has failed, encode does not return
\* and no output file is written.
C4_WorkerFailureFailsEncode ==
    failed # {} => (~EncodeReturned /\ ~out_file.written)

\* C5: no seek or read of the chunk loop raises an error.
C5_SeekAndReadNeverFail == ~(pc = "crashed" /\ error = "wave.Error")

\* C6: when the concatenation starts, and from then on, every worker has ended.
C6_ConcatAfterAllWorkers ==
    pc \in {"enc_concat", "close", "save", "done"} =>
        /\ Len(threads) = num_cpu
        /\ \A j \in 1..num_cpu : threads[j] = "finished"

\* the join loop waited for worker 1, the last to end
C6_Witness ==
    /\ pc = "enc_concat"
    /\ idx = 0
    /\ finished = <<2, 3, 1>>

\* C7: while encode seeks and reads no worker has been started, while a worker
\* runs main is in the start or the join loop, and the WaveFile is closed
\* only when every worker has ended and encode has returned.
C7_OneUserOfWaveFile ==
    /\ pc = "enc_read" => \A j \in 1..Len(threads) : threads[j] = "new"
    /\ (\E j \in 1..Len(threads) : threads[j] = "started") =>
           pc \in {"enc_start", "enc_join"}
    /\ wav_file.st = "closed" =>
           /\ pc \in {"save", "done"}
           /\ Len(threads) = num_cpu
           /\ \A j \in 1..num_cpu : threads[j] = "finished"

C7_Witness ==
    /\ wav_file.st = "closed"
    /\ num_cpu = 3
    /\ wav_file.soundpos = 4
    /\ Len(finished) = 3

\* a host on which one of the five error conditions of __configure_args holds
ErrorEnv(e) == ~e.input \/ ~e.lame \/ ~e.exists \/ e.isdir \/ e.out_exists

\* nothing of the run has happened: no WaveFile, no worker, no output file
NothingDone ==
    /\ wav_file = Unopened
    /\ threads = <<>>
    /\ ~out_file.written

\* C11 as stated: under any of the five error conditions the program exits
\* non-zero in __configure_args, with no WAV file opened, no worker started
\* and no output file written.
C11_ErrorExitsNonZero ==
    (ErrorEnv(env) /\ pc # "configure") => (pc = "exit_error" /\ NothingDone)

\* C11 amended: under any of the five error conditions the program exits in
\* __configure_args with nothing done, non-zero unless --version or --help
\* was given (then it exits zero); an existing output file is never written.
C11_ErrorExitsBeforeOpen ==
    /\ (ErrorEnv(env) /\ pc # "configure") =>
           /\ pc \in {"exit_ok", "exit_error"}
           /\ pc = "exit_ok" <=> (env.version \/ env.help)
           /\ NothingDone
    /\ env.out_exists => ~out_file.written

\* the only failed test is the one of the output file
C11_Witness ==
    /\ pc = "exit_error"
    /\ error = "Output file exists"
    /\ env = [GoodEnv(1, FALSE) EXCEPT !.out_exists = TRUE]
    /\ NothingDone

-----------------------------------------------------------------------------
(* Chapters against the cue points and labels of the layout                *)

\* ghost: the set of cue ids of the layout's cue records
LayoutCueIds(d) == {LayoutCues(d)[j][1] : j \in 1..Len(LayoutCues(d))}

\* ghost: the sample position of the last cue record of id c
LastPosition(d, c) ==
    LET recs == LayoutCues(d)
        last == CHOOSE j \in 1..Len(recs) :
                    /\ recs[j][1] = c
                    /\ \A k \in (j + 1)..Len(recs) : recs[k][1] # c
    IN  recs[last][2]

PositionMillis(d, pos) == (pos * 1000) \div d.rate

\* ghost: the text of the layout's labl for cue id c (without its NUL), or ""
LayoutTitle(d, c) ==
    IF \E j \in 1..Len(d.items) : d.items[j].t = "labl" /\ d.items[j].id = c
    THEN LET j == CHOOSE j \in 1..Len(d.items) :
                      d.items[j].t = "labl" /\ d.items[j].id = c
         IN  SubSeq(d.items[j].text, 1, Len(d.items[j].text) - 1)
    ELSE <<>>

HasListChunk(d) == \E j \in 1..Len(d.items) : d.items[j].t = "list"

\* ghost: an assignment of the chapters ch to the cue ids, one chapter each
ChapterIds(d, ch) ==
    {f \in [1..Len(ch) -> LayoutCueIds(d)] :
        \A i, j \in 1..Len(ch) : f[i] = f[j] => i = j}

\* C12: the chapters returned for a valid container are one per cue id; each
\* starts at its cue point's timestamp and is titled with the text of the
\* labl of that cue id, with the labl chunks inside a LIST chunk or not, and
\* with the empty string when the cue id has no labl.
C12_TitleIsLabelOfCue ==
    (pc = "rc_returned" /\ desc.kind = "valid") =>
        LET ch == outcome.ret
        IN  /\ Len(ch) = Cardinality(LayoutCueIds(desc))
            /\ \E f \in ChapterIds(desc, ch) :
                   \A i \in 1..Len(ch) :
                       /\ ch[i][1] = PositionMillis(desc, LastPosition(desc, f[i]))
                       /\ ch[i][3] = LayoutTitle(desc, f[i])

\* cue 2 at sample 0 and cue 1 at sample 2, only cue 2 labelled, in a LIST:
\* the chapters "BC" and ""
C12_Witness ==
    /\ pc = "rc_returned"
    /\ desc.kind = "valid"
    /\ HasListChunk(desc)
    /\ LayoutCues(desc) = <<<<2, 0>>, <<1, 2>>>>
    /\ LayoutLabelIds(desc) = <<2>>
    /\ desc.rate = 2
    /\ outcome.ret = <<<<0, 1000, <<66, 67>>>>,
                       <<1000, TotalDurationMillis(desc), <<>>>>>>

-----------------------------------------------------------------------------
(* Offsets of the scan against the chunks of the layout                    *)

\* ghost: the offset at which item j of the layout starts (j = Len + 1: the
\* end of the whole file)
ItemStart(d, j) == Len(FullBytes([d EXCEPT !.items = SubSeq(d.items, 1, j - 1)]))

ItemStarts(d) == {ItemStart(d, j) : j \in 1..(Len(d.items) + 1)}

\* ghost: the item whose identifier the scan is about to read
ItemAtFid == CHOOSE j \in 1..Len(desc.items) : ItemStart(desc, j) = fid

AtItem(t) ==
    /\ pc = "rc_scan"
    /\ \E j \in 1..Len(desc.items) : ItemStart(desc, j) = fid
    /\ desc.items[ItemAtFid].t = t

\* the entry of cue id k in markersdict md
EntryOf(md, k) == md[CHOOSE j \in 1..Len(md) : md[j].id = k]

\* C13: an iteration on a labl chunk of declared size c whose padded size
\* c + (c mod 2) is at least 4 and lies within the file moves the offset from
\* the chunk's identifier by 4 + 8 + (c + (c mod 2)) - 4; in a valid file
\* that is the start of the following chunk (or the end of the file), and
\* the label stored is the chunk's text without its NUL and pad bytes.
C13_LablConsumesPaddedSize ==
    [][(AtItem("labl") /\ pc' = "rc_scan") =>
          LET it == desc.items[ItemAtFid]
              c == it.size
              padded == c + (c % 2)
          IN  (padded >= 4 /\ fid + 8 + padded <= Len(file)) =>
                  /\ fid' = fid + 4 + 8 + padded - 4
                  /\ desc.kind = "valid" =>
                         /\ fid' \in ItemStarts(desc)
                         /\ EntryOf(markersdict', it.id).label
                                = SubSeq(it.text, 1, Len(it.text) - 1)]_vars

\* the labl "BC" of declared size 7 has been read: 16 bytes on from its
\* identifier, "BC" stored without the NUL and the pad byte
C13_Witness ==
    /\ pc = "rc_scan"
    /\ desc.kind = "valid"
    /\ \E j \in 1..Len(desc.items) :
           /\ desc.items[j].t = "labl"
           /\ desc.items[j].size = 7
           /\ Len(ItemBytes(desc.items[j])) = 16
           /\ fid = ItemStart(desc, j) + 16
           /\ HasKey(markersdict, desc.items[j].id)
           /\ EntryOf(markersdict, desc.items[j].id).label = <<66, 67>>

\* the signed 32-bit size field that follows the identifier at offset p
DeclaredSize(p) == Unpack_i(SubSeq(file, p + 5, p + 8))

\* C14: an iteration on a chunk whose identifier is none of 'cue ', 'LIST',
\* 'labl', when it ends without an error, moves the offset by 8 + s from the
\* identifier, s being the declared size made even by rounding up, and
\* leaves markersdict as it was; the declared size is the one the layout
\* gave the chunk.
C14_UnknownChunkSkipped ==
    [][(/\ pc = "rc_scan"
        /\ fid < fsize
        /\ chunk_id \notin {CUE_, LIST, LABL}
        /\ pc' = "rc_scan") =>
           LET c == DeclaredSize(fid)
               s == c + (c % 2)
           IN  /\ fid' = fid + 8 + s
               /\ markersdict' = markersdict
               /\ AtItem("unk") => c = desc.items[ItemAtFid].size]_vars

\* a chunk of declared size 3 after the cue chunk has been skipped: 12 bytes
\* on, at the LIST chunk, with both cue points still held
C14_Witness ==
    /\ pc = "rc_scan"
    /\ desc.kind = "valid"
    /\ Len(markersdict) = 2
    /\ \E j \in 1..Len(desc.items) :
           /\ desc.items[j].t = "unk"
           /\ desc.items[j].size = 3
           /\ fid = ItemStart(desc, j) + 12
           /\ fid = ItemStart(desc, j + 1)
           /\ chunk_id = LIST

\* ghost: some cue id has more than one record in the layout
HasDuplicateIds(d) == Cardinality(LayoutCueIds(d)) < Len(LayoutCues(d))

\* C15: for a valid container whose cue chunk has several records of one
\* cue id, read_chapters returns one chapter per distinct cue id, and the
\* chapter of an id starts at the timestamp of the last record of that id.
C15_LastCueRecordWins ==
    (pc = "rc_returned" /\ desc.kind = "valid" /\ HasDuplicateIds(desc)) =>
        LET ch == outcome.ret
        IN  /\ Len(ch) = Cardinality(LayoutCueIds(desc))
            /\ \E f \in ChapterIds(desc, ch) :
                   \A i \in 1..Len(ch) :
                       ch[i][1] = PositionMillis(desc, LastPosition(desc, f[i]))

\* cue id 1 at sample 3, then again at sample 1, at 2 Hz: one chapter, from
\* 500 ms
C15_Witness ==
    /\ pc = "rc_returned"
    /\ desc.kind = "valid"
    /\ desc.rate = 2
    /\ LayoutCues(desc) = <<<<1, 3>>, <<1, 1>>>>
    /\ Len(outcome.ret) = 1
    /\ outcome.ret[1][1] = 500

-----------------------------------------------------------------------------
(* Properties of __round_up and samples_per_chunk, under SpecRoundUp       *)

\* the loop has counted fewer than N times, and what is returned is the
\* smallest c with N * c >= S
RoundUpCorrect ==
    LET S == desc.nsamples
        N == num_cpu
        c == samples_per_chunk
    IN  /\ pc = "ru_loop" => (S <= round_up_num /\ round_up_num < S + N)
        /\ pc = "ru_done" =>
               /\ N * c >= S
               /\ \A b \in 0..(c - 1) : N * b < S
               /\ round_up_num % N = 0 /\ round_up_num >= S /\ round_up_num < S + N
               /\ c = SamplesPerChunk(S, N)
               /\ (N = 4 /\ S = 10) => c = 3

\* C16: for every S >= 0 and N >= 1 (up to the bounds) __round_up returns
\* after fewer than N iterations, and samples_per_chunk is the smallest
\* integer c with N * c >= S; for N = 4 and S = 10 it is 3.
C16_SamplesPerChunkIsCeiling ==
    []RoundUpCorrect /\ <>(pc = "ru_done")

\* 10 samples on 4 workers: counted up to 12, chunks of 3
C16_Witness ==
    /\ pc = "ru_done"
    /\ desc.nsamples = 10
    /\ num_cpu = 4
    /\ round_up_num = 12
    /\ samples_per_chunk = 3

-----------------------------------------------------------------------------
(* Progress of the chunk scan                                              *)

\* C17: every iteration of the while loop that does not end the call moves
\* the offset forward, so that no offset is scanned twice and the loop ends
\* at the declared container size or with an error.
C17_ScanAlwaysAdvances ==
    [][(pc = "rc_scan" /\ pc' = "rc_scan") => fid' > fid]_vars

-----------------------------------------------------------------------------
(* Chapters and cue points                                                 *)

\* ghost: a labl of the layout names a cue id that no cue record has
HasOrphanLabel(d) ==
    \E j \in 1..Len(LayoutLabelIds(d)) :
        LayoutLabelIds(d)[j] \notin LayoutCueIds(d)

\* ghost: item j lies in the bytes that an earlier unknown chunk declares as
\* its own body
Swallowed(d, j) ==
    \E k \in 1..(j - 1) :
        /\ d.items[k].t = "unk"
        /\ d.items[k].size > d.items[k].n + (d.items[k].n % 2)

\* ghost: the cue ids of the cue chunks that the container's framing holds
FramedCueIds(d) ==
    UNION {{d.items[j].recs[r][1] : r \in 1..Len(d.items[j].recs)} :
              j \in {k \in 1..Len(d.items) :
                         d.items[k].t = "cue" /\ ~Swallowed(d, k)}}

\* ghost: the timestamps of the layout's cue records
CueMillis(d) ==
    {PositionMillis(d, LayoutCues(d)[j][2]) : j \in 1..Len(LayoutCues(d))}

\* C18: a list that read_chapters returns holds only chapters that start at
\* the timestamp of a cue record; it has as many chapters as the cue chunks
\* that the container's framing holds have distinct cue ids (a cue chunk in
\* the declared body of an unknown chunk is that chunk's data); and a call
\* on a file with a labl
\* whose cue id no cue record has ends with an error, not with a list.
C18_ChaptersStemFromCues ==
    /\ pc = "rc_returned" =>
           \A i \in 1..Len(outcome.ret) : outcome.ret[i][1] \in CueMillis(desc)
    /\ pc = "rc_returned" =>
           Len(outcome.ret) = Cardinality(FramedCueIds(desc))
    /\ (CallEnded /\ HasOrphanLabel(desc)) =>
           (pc = "rc_raised" /\ outcome.st = "ValueError")

\* two cue points and a labl for cue id 9: the call has ended with the
\* ValueError of int("")
C18_Witness ==
    /\ pc = "rc_raised"
    /\ desc.kind = "orphan"
    /\ Len(LayoutCues(desc)) = 2
    /\ LayoutLabelIds(desc) = <<9>>
    /\ outcome.st = "ValueError"
    /\ fid = Len(file)

-----------------------------------------------------------------------------
(* Chapter intervals                                                       *)

\* ghost: every cue record of the layout lies within 0..numSamples
PositionsInRange(d) ==
    \A j \in 1..Len(LayoutCues(d)) :
        LayoutCues(d)[j][2] >= 0 /\ LayoutCues(d)[j][2] <= d.nsamples

\* ghost: the earliest of the cue points' timestamps
FirstCueMillis(d) ==
    CHOOSE t \in {PositionMillis(d, LastPosition(d, c)) : c \in LayoutCueIds(d)} :
        \A c \in LayoutCueIds(d) : t <= PositionMillis(d, LastPosition(d, c))

\* ghost: the timestamps of the samples of the stream
SampleMillis(d) == {PositionMillis(d, p) : p \in 0..d.nsamples}

\* C19: for a valid container whose cue positions all lie in 0..numSamples,
\* every returned chapter has startMillis <= endMillis, the first starts at
\* the earliest cue timestamp, each ends where the next starts, the last
\* ends at the total duration, and every instant from the first start up to
\* the total duration lies in exactly one chapter's [start, end).
C19_ChaptersTileTheTrack ==
    (pc = "rc_returned" /\ desc.kind = "valid" /\ PositionsInRange(desc)) =>
        LET ch == outcome.ret
            K == Len(ch)
            total == TotalDurationMillis(desc)
        IN  /\ \A i \in 1..K : ch[i][1] <= ch[i][2]
            /\ \A i \in 1..(K - 1) : ch[i][2] = ch[i + 1][1]
            /\ K > 0 =>
                   /\ ch[1][1] = FirstCueMillis(desc)
                   /\ ch[K][2] = total
                   /\ \A t \in SampleMillis(desc) :
                          (ch[1][1] <= t /\ t < total) =>
                              Cardinality({i \in 1..K :
                                  ch[i][1] <= t /\ t < ch[i][2]}) = 1

\* cue points at the last-plus-one sample position 4 and at 0, of 4 samples
\* at 2 Hz: the chapters [0, 2000) and the empty [2000, 2000)
C19_Witness ==
    /\ pc = "rc_returned"
    /\ desc.kind = "valid"
    /\ PositionsInRange(desc)
    /\ desc.nsamples = 4
    /\ LayoutCues(desc) = <<<<1, 4>>, <<2, 0>>>>
    /\ LayoutLabelIds(desc) = <<>>
    /\ outcome.ret = <<<<0, 2000, <<>>>>, <<2000, 2000, <<>>>>>>

====
